---- MODULE Spec2Model ----
(***************************************************************************)
(* Model of the two WNT example clients                                    *)
(*   wrappers/python/examples/wnt/network.py (NetworkExample)              *)
(*   wrappers/python/examples/wnt/applicationconfiguration.py              *)
(*                                     (ApplicationConfigurationExample)   *)
(* One behaviour is one run of one of the two programs: Init picks the     *)
(* program, RunStart is run() starting the connection threads, and every   *)
(* websocket callback (on_open, on_message, on_error) is one action.       *)
(* Callbacks are processed one at a time.                                  *)
(***************************************************************************)
EXTENDS Integers, Sequences, FiniteSets

VARIABLES
    prog,               \* which example runs: "network" or "appconfig"
    pc,                 \* position of run(): "init", "join", "returned"
    result,             \* value returned by run() (exit status)
    state,              \* self.state, as the Enum value
    return_code,        \* self.return_code
    total_node_count,   \* self.total_node_count
    loaded_node_count,  \* self.loaded_node_count
    chan,               \* per channel: lifecycle of its connection thread
    late,               \* per channel: messages already read when it was stopped
    stops,              \* per channel: number of stop_*_thread invocations
    sent,               \* log of socket.send calls: state and channel
    visited,            \* log of the values assigned to self.state
    ev,                 \* the callback (or run() step) processed last
    inorder,            \* every message so far answered the current state's request
    acked,              \* a successful set-configuration acknowledgement was processed
    broadcast_seen,     \* a configuration broadcast was processed after the request
    n_meta,             \* universe-size events processed in WAIT_FOR_STARTUP_SITUATION
    saw_both,           \* one of those also carried a member identity
    saw_neither,        \* an event carrying neither was processed there
    thr                 \* per channel thread: position inside a running on_message

vars == <<prog, pc, result, state, return_code, total_node_count,
          loaded_node_count, chan, late, stops, sent, visited, ev, inorder,
          acked, broadcast_seen, n_meta, saw_both, saw_neither, thr>>

(***************************************************************************)
(* Bounds of the model.                                                    *)
(***************************************************************************)
MaxCount == 3     \* largest node count declared / largest value of a counter
MaxMeta == 2      \* universe-size events processed in the startup wait state
MaxLate == 1      \* messages a channel had read when another thread stopped it

(***************************************************************************)
(* State enumerations (Enum with auto(): START = 1, then upwards).         *)
(***************************************************************************)
START == 1
LOGIN == 2
CREATE_NETWORK == 3
UPDATE_NETWORK == 4
GET_NETWORKS == 5
DELETE_NETWORK == 6
REALTIME_SITUATION_LOGIN == 3
WAIT_FOR_STARTUP_SITUATION == 4
SET_APPLICATION_CONFIGURATION == 5
WAIT_FOR_APPLICATION_CONFIGURATION == 6
END == 7

Programs == {"network", "appconfig"}

AllChannels == {"authentication", "metadata", "realtime_situation"}

\* The connection threads the program's Connections object is given callbacks for.
Channels(p) ==
    IF p = "network" THEN {"authentication", "metadata"} ELSE AllChannels

(***************************************************************************)
(* Messages.  The codecs are external: a message is what the parsers       *)
(* report about it.  success is the result of the parse_* function applied *)
(* to a JSON response; has_meta / node_count, has_member and               *)
(* has_app_config are what the protobuf decoding of a telemetry frame      *)
(* yields (rtsituation_metadata, source_address with network_id,           *)
(* app_config).                                                            *)
(***************************************************************************)
Msg(s, hm, n, mb, ac) ==
    [success |-> s, has_meta |-> hm, node_count |-> n, has_member |-> mb,
     has_app_config |-> ac]

Response(s) == Msg(s, FALSE, 0, FALSE, FALSE)

Telemetry(hm, n, mb) == Msg(FALSE, hm, n, mb, FALSE)

Broadcast == Msg(FALSE, FALSE, 0, FALSE, TRUE)

Responses == {Response(s) : s \in BOOLEAN}

Telemetries ==
    {Telemetry(FALSE, 0, mb) : mb \in BOOLEAN}
        \cup {Telemetry(TRUE, n, mb) : n \in 0..MaxCount, mb \in BOOLEAN}

Messages == Responses \cup Telemetries \cup {Broadcast}

NoMsg == Response(FALSE)

\* What the MessageCollection decoding used in the two configuration states
\* reports: a collection with or without an app_config message.
Collections == {Broadcast, Telemetry(FALSE, 0, FALSE)}

\* Messages a callback can be handed in a state.  A frame the state's decoder
\* cannot decode (json.loads of a protobuf frame, ParseFromString of JSON)
\* raises inside the callback and is not modelled.
Inputs(p, c, st) ==
    IF p = "network" \/ c # "realtime_situation" THEN Responses
    ELSE IF st = REALTIME_SITUATION_LOGIN THEN Responses
    ELSE IF st = WAIT_FOR_STARTUP_SITUATION THEN Telemetries \cup {Broadcast}
    ELSE IF st \in {SET_APPLICATION_CONFIGURATION,
                    WAIT_FOR_APPLICATION_CONFIGURATION} THEN Collections
    ELSE Responses \cup Collections

\* A processed event: the kind of callback, its channel, the channel's
\* keep_running flag and, of a message, the response verdict, whether it
\* carries an app_config record, and the universe size it declares.
Event(k, c, m, kr) ==
    [kind |-> k, chan |-> c, success |-> m.success,
     has_app_config |-> m.has_app_config, has_meta |-> m.has_meta,
     node_count |-> m.node_count, keep_running |-> kr]

(***************************************************************************)
(* send_request: the channel whose socket.send is called in a state,       *)
(* "none" when no branch matches.                                          *)
(***************************************************************************)
\* Variant of Net_send_request whose GET_NETWORKS branch is missing.
Net_send_request_skip(st) ==
    IF st = LOGIN THEN "authentication"
    ELSE IF st \in {CREATE_NETWORK, UPDATE_NETWORK, DELETE_NETWORK} THEN "metadata"
    ELSE "none"

Net_send_request(st) ==
    IF st = LOGIN THEN "authentication"
    ELSE IF st = CREATE_NETWORK THEN "metadata"
    ELSE IF st = UPDATE_NETWORK THEN "metadata"
    ELSE IF st = GET_NETWORKS THEN "metadata"
    ELSE IF st = DELETE_NETWORK THEN "metadata"
    ELSE "none"

\* Variant of App_send_request that sends the set-configuration request on
\* the realtime situation socket.
App_send_request_wrong(st) ==
    IF st = LOGIN THEN "authentication"
    ELSE IF st = REALTIME_SITUATION_LOGIN THEN "realtime_situation"
    ELSE IF st = SET_APPLICATION_CONFIGURATION THEN "realtime_situation"
    ELSE "none"

App_send_request(st) ==
    IF st = LOGIN THEN "authentication"
    ELSE IF st = REALTIME_SITUATION_LOGIN THEN "realtime_situation"
    ELSE IF st = SET_APPLICATION_CONFIGURATION THEN "metadata"
    ELSE "none"

send_request(p, st) ==
    IF p = "network" THEN Net_send_request(st) ELSE App_send_request(st)

\* The send log after send_request() ran in state st.
AfterSend(p, st, log) ==
    IF send_request(p, st) = "none" THEN log
    ELSE Append(log, [state |-> st, channel |-> send_request(p, st)])

(***************************************************************************)
(* parse_response: the parser's verdict in a request state; the function   *)
(* falls off its end (returns None, which is falsy) in every other state.  *)
(***************************************************************************)
\* Variant of Net_parse_response that reports the message's verdict in every
\* state, END included.
Net_parse_response_any(st, m) == m.success

Net_parse_response(st, m) ==
    IF st \in {LOGIN, CREATE_NETWORK, UPDATE_NETWORK, GET_NETWORKS, DELETE_NETWORK}
    THEN m.success ELSE FALSE

\* Variant of App_parse_response that reports the message's verdict in every state.
App_parse_response_any(st, m) == m.success

App_parse_response(st, m) ==
    IF st \in {LOGIN, SET_APPLICATION_CONFIGURATION} THEN m.success ELSE FALSE

parse_response(p, st, m) ==
    IF p = "network" THEN Net_parse_response(st, m) ELSE App_parse_response(st, m)

\* self.State(self.state.value + 1)
NextState(st) == st + 1

(***************************************************************************)
(* Stopping connection threads.                                            *)
(***************************************************************************)
\* Channels on which NetworkExample.on_message calls client.stop_*_thread().
Net_stop_targets == {"metadata", "authentication"}

\* Variant of stop_connection_threads() that forgets the realtime situation thread.
App_stop_targets_two == {"metadata", "authentication"}

\* stop_connection_threads(): realtime situation, metadata, authentication.
App_stop_targets == {"realtime_situation", "metadata", "authentication"}

StopTargets(p) == IF p = "network" THEN Net_stop_targets ELSE App_stop_targets

\* Invocation counts after the stop calls.
StopsAfter(p) ==
    [c \in AllChannels |-> IF c \in StopTargets(p) THEN stops[c] + 1 ELSE stops[c]]

\* Connections.stop_*_thread: a started or open connection is closed
\* (keep_running becomes false); stopping a closed one changes nothing.
ChanAfterStop(p) ==
    [c \in AllChannels |->
        IF c \in StopTargets(p) /\ chan[c] \in {"started", "open"}
        THEN "stopped" ELSE chan[c]]

\* A channel stopped from another channel's thread may have read one more
\* message that its callback has yet to process; the channel whose own
\* callback stopped it leaves its receive loop when the callback returns.
LateAfterStop(p, c0) ==
    [c \in AllChannels |->
        IF c = c0 THEN 0
        ELSE IF c \in StopTargets(p) /\ chan[c] = "open" THEN MaxLate
        ELSE late[c]]

\* A message is handed to the callback of channel c.
Receivable(c) ==
    /\ pc = "join"
    /\ c \in Channels(prog)
    /\ \/ chan[c] = "open"
       \/ chan[c] = "stopped" /\ late[c] > 0

LateAfterDeliver(c) ==
    IF chan[c] = "stopped" THEN [late EXCEPT ![c] = @ - 1] ELSE late

(***************************************************************************)
(* History of the run, kept for the properties.                            *)
(***************************************************************************)
Requested(st) == \E i \in DOMAIN sent : sent[i].state = st

\* The channel on which the message that completes a state arrives.
AnswerChannels(p, st) ==
    IF p = "network"
    THEN (IF st = LOGIN THEN {"authentication"} ELSE {"metadata"})
    ELSE IF st = LOGIN THEN {"authentication"}
    ELSE IF st = SET_APPLICATION_CONFIGURATION THEN {"metadata", "realtime_situation"}
    ELSE {"realtime_situation"}

RequestStates(p) ==
    IF p = "network"
    THEN {LOGIN, CREATE_NETWORK, UPDATE_NETWORK, GET_NETWORKS, DELETE_NETWORK}
    ELSE {LOGIN, REALTIME_SITUATION_LOGIN, SET_APPLICATION_CONFIGURATION}

\* Message m on channel c answers the request of the current state with success.
InOrderMsg(c, m) ==
    /\ c \in AnswerChannels(prog, state)
    /\ send_request(prog, state) # "none" => Requested(state)
    /\ (state \in RequestStates(prog) /\ c # "realtime_situation") => m.success
    /\ (state = REALTIME_SITUATION_LOGIN /\ prog = "appconfig") => m.success

InOrderAfter(c, m) ==
    IF state < END THEN inorder /\ InOrderMsg(c, m) ELSE inorder

\* A channel thread that is not inside on_message: ok is the verdict of
\* parse_response and v the value of self.state it read.
Idle == [pc |-> "idle", success |-> FALSE, ok |-> FALSE, v |-> 0]

Init ==
    /\ prog \in Programs
    /\ pc = "init"
    /\ result = -1
    /\ state = START + 1
    /\ return_code = -1
    /\ total_node_count = 0
    /\ loaded_node_count = 0
    /\ chan = [c \in AllChannels |-> "none"]
    /\ late = [c \in AllChannels |-> 0]
    /\ stops = [c \in AllChannels |-> 0]
    /\ sent = <<>>
    /\ visited = <<START + 1>>
    /\ ev = Event("none", "none", NoMsg, FALSE)
    /\ inorder = TRUE
    /\ acked = FALSE
    /\ broadcast_seen = FALSE
    /\ n_meta = 0
    /\ saw_both = FALSE
    /\ saw_neither = FALSE
    /\ thr = [c \in AllChannels |-> Idle]


(***************************************************************************)
(* run(): starts the connection threads, then joins them.                  *)
(***************************************************************************)
RunStart ==
    /\ pc = "init"
    /\ pc' = "join"
    /\ chan' = [c \in AllChannels |-> IF c \in Channels(prog) THEN "started" ELSE "none"]
    /\ ev' = Event("start", "none", NoMsg, FALSE)
    /\ UNCHANGED <<thr, prog, result, state, return_code, total_node_count,
                   loaded_node_count, late, stops, sent, visited, inorder,
                   acked, broadcast_seen, n_meta, saw_both, saw_neither>>

\* NetworkExample.run joins both threads without a timeout;
\* ApplicationConfigurationExample.run waits at most 10 seconds for the
\* realtime situation thread and does not wait for the other two.
JoinReleased ==
    IF prog = "network"
    THEN chan["metadata"] = "ended" /\ chan["authentication"] = "ended"
    ELSE TRUE

RunReturn ==
    /\ pc = "join"
    /\ JoinReleased
    /\ pc' = "returned"
    /\ result' = return_code
    /\ ev' = Event("return", "none", NoMsg, FALSE)
    /\ UNCHANGED <<thr, prog, state, return_code, total_node_count,
                   loaded_node_count, chan, late, stops, sent, visited,
                   inorder, acked, broadcast_seen, n_meta, saw_both, saw_neither>>

\* The receive loop of a stopped connection ends.
ThreadExit(c) ==
    /\ pc = "join"
    /\ chan[c] = "stopped"
    /\ thr[c].pc = "idle"
    /\ chan' = [chan EXCEPT ![c] = "ended"]
    /\ late' = [late EXCEPT ![c] = 0]
    /\ ev' = Event("exit", c, NoMsg, FALSE)
    /\ UNCHANGED <<thr, prog, pc, result, state, return_code, total_node_count,
                   loaded_node_count, stops, sent, visited, inorder, acked,
                   broadcast_seen, n_meta, saw_both, saw_neither>>

(***************************************************************************)
(* on_open callbacks.                                                      *)
(***************************************************************************)
authentication_on_open ==
    /\ pc = "join"
    /\ chan["authentication"] = "started"
    /\ chan' = [chan EXCEPT !["authentication"] = "open"]
    /\ sent' = AfterSend(prog, state, sent)
    /\ ev' = Event("open", "authentication", NoMsg, TRUE)
    /\ UNCHANGED <<thr, prog, pc, result, state, return_code, total_node_count,
                   loaded_node_count, late, stops, visited, inorder, acked,
                   broadcast_seen, n_meta, saw_both, saw_neither>>

\* metadata_on_open and realtime_situation_on_open only log.
other_on_open(c) ==
    /\ pc = "join"
    /\ c \in Channels(prog) \ {"authentication"}
    /\ chan[c] = "started"
    /\ chan' = [chan EXCEPT ![c] = "open"]
    /\ ev' = Event("open", c, NoMsg, TRUE)
    /\ UNCHANGED <<thr, prog, pc, result, state, return_code, total_node_count,
                   loaded_node_count, late, stops, sent, visited, inorder,
                   acked, broadcast_seen, n_meta, saw_both, saw_neither>>

(***************************************************************************)
(* on_error callbacks: log when websocket.keep_running, nothing else.      *)
(***************************************************************************)
\* Variant of the on_error callbacks that stops the connection threads
\* whatever keep_running is.
on_error_abort(c) ==
    /\ pc = "join"
    /\ c \in Channels(prog)
    /\ chan[c] \in {"started", "open", "stopped"}
    /\ ev' = Event("error", c, NoMsg, chan[c] # "stopped")
    /\ stops' = StopsAfter(prog)
    /\ chan' = ChanAfterStop(prog)
    /\ late' = LateAfterStop(prog, c)
    /\ UNCHANGED <<thr, prog, pc, result, state, return_code, total_node_count,
                   loaded_node_count, sent, visited,
                   inorder, acked, broadcast_seen, n_meta, saw_both, saw_neither>>

on_error(c) ==
    /\ pc = "join"
    /\ c \in Channels(prog)
    /\ chan[c] \in {"started", "open", "stopped"}
    /\ ev' = Event("error", c, NoMsg, chan[c] # "stopped")
    /\ UNCHANGED <<thr, prog, pc, result, state, return_code, total_node_count,
                   loaded_node_count, chan, late, stops, sent, visited,
                   inorder, acked, broadcast_seen, n_meta, saw_both, saw_neither>>

(***************************************************************************)
(* The failure branch and the END branch of the message handlers.          *)
(***************************************************************************)
StopAll(c) ==
    /\ stops' = StopsAfter(prog)
    /\ chan' = ChanAfterStop(prog)
    /\ late' = LateAfterStop(prog, c)

NoStop(c) ==
    /\ late' = LateAfterDeliver(c)
    /\ UNCHANGED <<stops, chan>>

\* self.state = self.State(self.state.value + 1), then send_request() or,
\* in END, return_code = 0 and the stop calls.
Advance(c) ==
    /\ state' = NextState(state)
    /\ visited' = Append(visited, NextState(state))
    /\ IF NextState(state) # END
       THEN /\ sent' = AfterSend(prog, NextState(state), sent)
            /\ NoStop(c)
            /\ UNCHANGED return_code
       ELSE /\ return_code' = 0
            /\ StopAll(c)
            /\ UNCHANGED sent

Fail(c) ==
    /\ StopAll(c)
    /\ UNCHANGED <<state, visited, sent, return_code>>

(***************************************************************************)
(* NetworkExample.on_message (authentication and metadata messages).       *)
(***************************************************************************)
Net_on_message(c, m) ==
    /\ prog = "network"
    /\ Receivable(c)
    /\ m \in Inputs(prog, c, state)
    /\ ev' = Event("message", c, m, chan[c] # "stopped")
    /\ inorder' = InOrderAfter(c, m)
    /\ IF ~Net_parse_response(state, m) THEN Fail(c) ELSE Advance(c)
    /\ UNCHANGED <<thr, prog, pc, result, total_node_count, loaded_node_count,
                   acked, broadcast_seen, n_meta, saw_both, saw_neither>>

(***************************************************************************)
(* ApplicationConfigurationExample.on_message.                             *)
(***************************************************************************)
App_on_message(c, m) ==
    /\ prog = "appconfig"
    /\ c \in {"authentication", "metadata"}
    /\ Receivable(c)
    /\ m \in Inputs(prog, c, state)
    /\ ev' = Event("message", c, m, chan[c] # "stopped")
    /\ inorder' = InOrderAfter(c, m)
    /\ acked' = (acked \/ (state = SET_APPLICATION_CONFIGURATION
                              /\ c = "metadata" /\ m.success))
    /\ IF ~App_parse_response(state, m) THEN Fail(c)
       ELSE IF state # WAIT_FOR_APPLICATION_CONFIGURATION THEN Advance(c)
       ELSE /\ NoStop(c)
            /\ UNCHANGED <<state, visited, sent, return_code>>
    /\ UNCHANGED <<thr, prog, pc, result, total_node_count, loaded_node_count,
                   broadcast_seen, n_meta, saw_both, saw_neither>>

(***************************************************************************)
(* ApplicationConfigurationExample.realtime_situation_on_message.          *)
(***************************************************************************)
\* self.total_node_count after the rtsituation_metadata test
TotalAfter(m) ==
    IF m.has_meta THEN total_node_count + m.node_count ELSE total_node_count

\* self.loaded_node_count after the source_address / network_id test
LoadedAfter(m) ==
    IF m.has_member THEN loaded_node_count + 1 ELSE loaded_node_count

\* Variant of the state test of the startup branch that also takes the
\* branch in SET_APPLICATION_CONFIGURATION.
InStartupBranch_wide(st) ==
    st \in {WAIT_FOR_STARTUP_SITUATION, SET_APPLICATION_CONFIGURATION}

\* elif self.state == self.state.WAIT_FOR_STARTUP_SITUATION
InStartupBranch(st) == st = WAIT_FOR_STARTUP_SITUATION

\* Variant of the comparison that fires as soon as the tally reaches the total.
StartupLoaded_ge(loaded, total) == loaded >= total

\* if self.loaded_node_count == self.total_node_count
StartupLoaded(loaded, total) == loaded = total

realtime_situation_on_message(m) ==
    /\ prog = "appconfig"
    /\ Receivable("realtime_situation")
    /\ m \in Inputs(prog, "realtime_situation", state)
    /\ ev' = Event("message", "realtime_situation", m,
                   chan["realtime_situation"] # "stopped")
    /\ inorder' = InOrderAfter("realtime_situation", m)
    /\ IF state = REALTIME_SITUATION_LOGIN
       THEN /\ IF ~m.success THEN Fail("realtime_situation")
               ELSE /\ state' = NextState(state)
                    /\ visited' = Append(visited, NextState(state))
                    /\ sent' = AfterSend(prog, NextState(state), sent)
                    /\ NoStop("realtime_situation")
                    /\ UNCHANGED return_code
            /\ UNCHANGED <<total_node_count, loaded_node_count, broadcast_seen,
                           n_meta, saw_both, saw_neither>>
       ELSE IF InStartupBranch(state)
       THEN /\ TotalAfter(m) <= MaxCount
            /\ LoadedAfter(m) <= MaxCount
            /\ n_meta' = (IF m.has_meta THEN n_meta + 1 ELSE n_meta)
            /\ saw_both' = (saw_both \/ (m.has_meta /\ m.has_member))
            /\ saw_neither' = (saw_neither \/ (~m.has_meta /\ ~m.has_member))
            /\ n_meta' <= MaxMeta
            /\ total_node_count' = TotalAfter(m)
            /\ loaded_node_count' = LoadedAfter(m)
            /\ IF StartupLoaded(LoadedAfter(m), TotalAfter(m))
               THEN /\ state' = NextState(state)
                    /\ visited' = Append(visited, NextState(state))
                    /\ sent' = AfterSend(prog, NextState(state), sent)
               ELSE UNCHANGED <<state, visited, sent>>
            /\ NoStop("realtime_situation")
            /\ UNCHANGED <<return_code, broadcast_seen>>
       ELSE IF \/ state = WAIT_FOR_APPLICATION_CONFIGURATION
               \/ state = SET_APPLICATION_CONFIGURATION
       THEN /\ broadcast_seen' = (broadcast_seen \/ m.has_app_config)
            /\ NoStop("realtime_situation")
            /\ UNCHANGED <<state, visited, sent, return_code, total_node_count,
                           loaded_node_count, n_meta, saw_both, saw_neither>>
       ELSE /\ NoStop("realtime_situation")
            /\ UNCHANGED <<state, visited, sent, return_code, total_node_count,
                           loaded_node_count, broadcast_seen, n_meta, saw_both,
                           saw_neither>>
    /\ UNCHANGED <<thr, prog, pc, result, acked>>

Next ==
    \/ RunStart
    \/ RunReturn
    \/ \E c \in AllChannels : ThreadExit(c)
    \/ authentication_on_open
    \/ \E c \in AllChannels : other_on_open(c)
    \/ \E c \in AllChannels : on_error(c)
    \/ \E c \in AllChannels, m \in Messages : Net_on_message(c, m)
    \/ \E c \in AllChannels, m \in Messages : App_on_message(c, m)
    \/ \E m \in Messages : realtime_situation_on_message(m)

Spec == Init /\ [][Next]_vars

\* run() keeps running on the main thread (the threads are started, an
\* expired or released join returns), and the receive loop of a closed
\* connection ends.  Nothing obliges the server to send a message or a
\* connection to open.
FairSpec ==
    /\ Spec
    /\ WF_vars(RunStart)
    /\ WF_vars(RunReturn)
    /\ \A c \in AllChannels : WF_vars(ThreadExit(c))


(***************************************************************************)
(* on_message statement by statement.  The authentication and the metadata *)
(* connection run on_message on their own threads and nothing serialises   *)
(* them, so the reads and writes of self.state of two running callbacks    *)
(* interleave.  A run starts after the on_open callbacks: both channels    *)
(* open, the login request sent.                                           *)
(***************************************************************************)
RaceThreads == {"authentication", "metadata"}

RaceInit ==
    /\ prog \in Programs
    /\ pc = "join"
    /\ result = -1
    /\ state = START + 1
    /\ return_code = -1
    /\ total_node_count = 0
    /\ loaded_node_count = 0
    /\ chan = [c \in AllChannels |-> IF c \in Channels(prog) THEN "open" ELSE "none"]
    /\ late = [c \in AllChannels |-> 0]
    /\ stops = [c \in AllChannels |-> 0]
    /\ sent = AfterSend(prog, START + 1, <<>>)
    /\ visited = <<START + 1>>
    /\ ev = Event("open", "authentication", NoMsg, TRUE)
    /\ inorder = TRUE
    /\ acked = FALSE
    /\ broadcast_seen = FALSE
    /\ n_meta = 0
    /\ saw_both = FALSE
    /\ saw_neither = FALSE
    /\ thr = [c \in AllChannels |-> Idle]

\* Variables no statement of on_message touches.
RaceFrame ==
    UNCHANGED <<prog, pc, result, total_node_count, loaded_node_count,
                inorder, acked, broadcast_seen, n_meta, saw_both, saw_neither>>

Goto(t, p) == thr' = [thr EXCEPT ![t].pc = p]

\* The websocket hands a message to on_message on the channel's thread.
r_receive(t, m) ==
    /\ t \in RaceThreads
    /\ thr[t].pc = "idle"
    /\ chan[t] = "open"
    /\ m \in Responses
    /\ thr' = [thr EXCEPT ![t] = [pc |-> "parse", success |-> m.success,
                                  ok |-> FALSE, v |-> 0]]
    /\ ev' = Event("message", t, m, TRUE)
    /\ UNCHANGED <<state, return_code, chan, late, stops, sent, visited>>
    /\ RaceFrame

\* if not self.parse_response(message): parse_response reads self.state.
r_parse(t) ==
    /\ thr[t].pc = "parse"
    /\ LET ok == parse_response(prog, state, [success |-> thr[t].success])
       IN thr' = [thr EXCEPT ![t].ok = ok,
                             ![t].pc = IF ~ok THEN "fail"
                                       ELSE IF prog = "network" THEN "read"
                                       ELSE "guard"]
    /\ UNCHANGED <<state, return_code, chan, late, stops, sent, visited, ev>>
    /\ RaceFrame

\* elif not self.state == self.State.WAIT_FOR_APPLICATION_CONFIGURATION
r_guard(t) ==
    /\ thr[t].pc = "guard"
    /\ Goto(t, IF state # WAIT_FOR_APPLICATION_CONFIGURATION THEN "read" ELSE "idle")
    /\ UNCHANGED <<state, return_code, chan, late, stops, sent, visited, ev>>
    /\ RaceFrame

\* self.state.value + 1: the read of self.state
r_read(t) ==
    /\ thr[t].pc = "read"
    /\ thr' = [thr EXCEPT ![t].v = state, ![t].pc = "write"]
    /\ UNCHANGED <<state, return_code, chan, late, stops, sent, visited, ev>>
    /\ RaceFrame

\* self.state = self.State(...): the Enum lookup raises ValueError past END
\* and the callback ends there.
r_write(t) ==
    /\ thr[t].pc = "write"
    /\ IF NextState(thr[t].v) > END
       THEN /\ Goto(t, "idle")
            /\ UNCHANGED <<state, visited>>
       ELSE /\ state' = NextState(thr[t].v)
            /\ visited' = Append(visited, NextState(thr[t].v))
            /\ Goto(t, "check")
    /\ UNCHANGED <<return_code, chan, late, stops, sent, ev>>
    /\ RaceFrame

\* if self.state != self.State.END
r_check(t) ==
    /\ thr[t].pc = "check"
    /\ Goto(t, IF state # END THEN "send" ELSE "end1")
    /\ UNCHANGED <<state, return_code, chan, late, stops, sent, visited, ev>>
    /\ RaceFrame

\* self.send_request(): sends the request of the state it reads.
r_send(t) ==
    /\ thr[t].pc = "send"
    /\ sent' = AfterSend(prog, state, sent)
    /\ Goto(t, "idle")
    /\ UNCHANGED <<state, return_code, chan, late, stops, visited, ev>>
    /\ RaceFrame

\* Variant of the END branch that stops the threads before recording success.
EndBranchOrder_rev == <<"stop", "rc">>

\* The END branch: self.return_code = 0, then the stop calls.
EndBranchOrder == <<"rc", "stop">>

EndStatement(t, what) ==
    IF what = "rc"
    THEN /\ return_code' = 0
         /\ UNCHANGED <<chan, late, stops>>
    ELSE /\ StopAll(t)
         /\ UNCHANGED return_code

r_end1(t) ==
    /\ thr[t].pc = "end1"
    /\ EndStatement(t, EndBranchOrder[1])
    /\ Goto(t, "end2")
    /\ UNCHANGED <<state, sent, visited, ev>>
    /\ RaceFrame

r_end2(t) ==
    /\ thr[t].pc = "end2"
    /\ EndStatement(t, EndBranchOrder[2])
    /\ Goto(t, "idle")
    /\ UNCHANGED <<state, sent, visited, ev>>
    /\ RaceFrame

\* The failure branch: the stop calls.
r_fail(t) ==
    /\ thr[t].pc = "fail"
    /\ StopAll(t)
    /\ Goto(t, "idle")
    /\ UNCHANGED <<state, return_code, sent, visited, ev>>
    /\ RaceFrame

RaceNext ==
    \/ \E t \in RaceThreads, m \in Responses : r_receive(t, m)
    \/ \E t \in RaceThreads : r_parse(t)
    \/ \E t \in RaceThreads : r_guard(t)
    \/ \E t \in RaceThreads : r_read(t)
    \/ \E t \in RaceThreads : r_write(t)
    \/ \E t \in RaceThreads : r_check(t)
    \/ \E t \in RaceThreads : r_send(t)
    \/ \E t \in RaceThreads : r_end1(t)
    \/ \E t \in RaceThreads : r_end2(t)
    \/ \E t \in RaceThreads : r_fail(t)
    \/ \E c \in RaceThreads : ThreadExit(c)
    \/ RunReturn

RaceSpec == RaceInit /\ [][RaceNext]_vars

(***************************************************************************)
(* Properties.                                                             *)
(***************************************************************************)
Closed(c) == chan[c] \in {"stopped", "ended"}

\* The transition from WAIT_FOR_STARTUP_SITUATION has been taken.
Fired == \E i \in DOMAIN visited : visited[i] = SET_APPLICATION_CONFIGURATION

\* The channel the specification binds to each state ("none": no send).
BoundChannel(p, st) ==
    IF st = LOGIN THEN "authentication"
    ELSE IF p = "network" /\ st \in {CREATE_NETWORK, UPDATE_NETWORK, GET_NETWORKS,
                                     DELETE_NETWORK} THEN "metadata"
    ELSE IF p = "appconfig" /\ st = REALTIME_SITUATION_LOGIN THEN "realtime_situation"
    ELSE IF p = "appconfig" /\ st = SET_APPLICATION_CONFIGURATION THEN "metadata"
    ELSE "none"

\* C1: in both programs every change of the current state goes from the
\* state with index i to the state with index i+1 and never past END, so the
\* values assigned to the state are strictly increasing: nothing is skipped
\* and nothing is revisited.
C1_MonotonicTransition ==
    [][/\ state' # state => (state' = state + 1 /\ state' <= END)
       /\ \A i, j \in DOMAIN visited' : i < j => visited'[i] < visited'[j]
       /\ visited'[Len(visited')] = state']_vars

C1_Witness ==
    /\ prog = "appconfig"
    /\ state = WAIT_FOR_APPLICATION_CONFIGURATION
    /\ visited = <<LOGIN, REALTIME_SITUATION_LOGIN, WAIT_FOR_STARTUP_SITUATION,
                   SET_APPLICATION_CONFIGURATION, WAIT_FOR_APPLICATION_CONFIGURATION>>

\* C2: every send is issued on the channel bound to the state that is
\* current at the moment of the send, and no send is issued in
\* WAIT_FOR_STARTUP_SITUATION, WAIT_FOR_APPLICATION_CONFIGURATION or END.
C2_SingleChannelBinding ==
    \A i \in DOMAIN sent :
        /\ BoundChannel(prog, sent[i].state) # "none"
        /\ sent[i].channel = BoundChannel(prog, sent[i].state)

C2_Witness ==
    /\ prog = "appconfig"
    /\ {sent[i].channel : i \in DOMAIN sent} = AllChannels

\* C3: when the events processed in WAIT_FOR_STARTUP_SITUATION are one
\* universe-size event declaring N and member events, the transition to
\* SET_APPLICATION_CONFIGURATION is taken at most once, and it has been
\* taken exactly when the universe-size event and N member events have been
\* processed: on the last of the N+1 events and not earlier.
C3_CorrelatorOrderIndependence ==
    (prog = "appconfig" /\ ~saw_both /\ ~saw_neither /\ n_meta <= 1) =>
        /\ Cardinality({i \in DOMAIN visited :
                            visited[i] = SET_APPLICATION_CONFIGURATION}) <= 1
        /\ Fired <=> (n_meta = 1 /\ loaded_node_count = total_node_count)

C3_Witness ==
    /\ prog = "appconfig"
    /\ ~saw_both /\ ~saw_neither /\ n_meta = 1
    /\ total_node_count = 3
    /\ loaded_node_count = 3
    /\ state = SET_APPLICATION_CONFIGURATION

\* C4: the state never advances to SET_APPLICATION_CONFIGURATION before at
\* least one universe-size event has been processed in the wait state.
C4_ExpectedUnsetUntilLearned ==
    (prog = "appconfig" /\ Fired) => n_meta >= 1

\* C5: of a set-configuration acknowledgement (metadata channel) and a
\* configuration broadcast (realtime situation channel) for the requested
\* change, the one processed first causes exactly one state transition and
\* the one processed second causes none.
C5_ConfirmationRace ==
    [][LET ack == /\ ev'.kind = "message" /\ ev'.chan = "metadata"
                  /\ ev'.success
           bcast == /\ ev'.kind = "message" /\ ev'.chan = "realtime_situation"
                    /\ ev'.has_app_config
           waiting == /\ prog = "appconfig" /\ inorder /\ ~saw_neither
                      /\ state \in {SET_APPLICATION_CONFIGURATION,
                                    WAIT_FOR_APPLICATION_CONFIGURATION}
       IN /\ (waiting /\ ~acked /\ ~broadcast_seen /\ (ack \/ bcast))
                 => state' = state + 1
          /\ (waiting /\ acked /\ ~broadcast_seen /\ bcast) => state' = state
          /\ (waiting /\ broadcast_seen /\ ~acked /\ ack) => state' = state]_vars

\* C6: when run() of ApplicationConfigurationExample returns after a run in
\* which every response indicated success, the startup counts converged and
\* the configuration change was acknowledged and broadcast, the state is
\* END, return_code is 0, all three channels are stopped and the value
\* returned is 0.
C6_AppFullSuccess ==
    (/\ prog = "appconfig" /\ inorder /\ ~saw_neither
     /\ acked /\ broadcast_seen /\ pc = "returned") =>
        /\ state = END
        /\ return_code = 0
        /\ \A c \in AllChannels : Closed(c)
        /\ result = 0

\* C7: in NetworkExample, when the five responses indicate success and
\* arrive in order, the states LOGIN .. END have been visited in order with
\* exactly one request sent per request state, return_code is 0, both
\* channels are stopped, and run() returns 0.
C7_NetworkFullSuccess ==
    (prog = "network" /\ inorder /\ state = END) =>
        /\ visited = <<LOGIN, CREATE_NETWORK, UPDATE_NETWORK, GET_NETWORKS,
                       DELETE_NETWORK, END>>
        /\ Len(sent) = 5
        /\ \A i \in DOMAIN sent : sent[i].state = i + 1
        /\ return_code = 0
        /\ Closed("metadata") /\ Closed("authentication")
        /\ pc = "returned" => result = 0

C7_Witness ==
    /\ prog = "network"
    /\ inorder
    /\ state = END
    /\ pc = "returned"
    /\ result = 0

\* In state st a message on channel c is handled as the response to the
\* state's request (in LOGIN and SET_APPLICATION_CONFIGURATION the realtime
\* situation handler decodes no response).
ParsedAsResponse(p, st, c) ==
    IF p = "network" THEN TRUE
    ELSE IF st = REALTIME_SITUATION_LOGIN THEN TRUE
    ELSE c \in {"authentication", "metadata"}

\* C8: a response with success = false processed in a request state causes
\* no state advance and no send, leaves return_code at -1, and invokes the
\* stop operation exactly once on every channel of the session.
C8_FailureResponseAborts ==
    [][(/\ ev'.kind = "message"
        /\ ~ev'.success
        /\ state \in RequestStates(prog)
        /\ ParsedAsResponse(prog, state, ev'.chan))
       => /\ state' = state
          /\ sent' = sent
          /\ return_code' = -1
          /\ \A c \in Channels(prog) : stops'[c] = stops[c] + 1
          /\ \A c \in Channels(prog) : chan'[c] \notin {"started", "open"}]_vars

C8_Witness ==
    /\ prog = "appconfig"
    /\ state = SET_APPLICATION_CONFIGURATION
    /\ ev.kind = "message" /\ ev.chan = "metadata" /\ ~ev.success
    /\ \A c \in AllChannels : stops[c] = 1 /\ Closed(c)
    /\ return_code = -1

\* A failure has been processed and the channels have been told to stop.
Aborted == state # END /\ \E c \in AllChannels : stops[c] > 0

\* C9: once a failure has been processed and the channels were told to
\* stop, nothing processed afterwards changes the state, sends, or changes
\* return_code.
C9_FirstOutcomeFinal ==
    [][Aborted => (state' = state /\ sent' = sent /\ return_code' = return_code)]_vars

\* C10: an error notification on a channel whose keep_running is true stops
\* every channel of the session.
C10_TransportErrorAborts ==
    [][(ev'.kind = "error" /\ ev'.keep_running)
       => \A c \in Channels(prog) : chan'[c] \in {"stopped", "ended"}]_vars


\* C12: at the moment send_request sends, the channel it sends on is open:
\* started, its open notification delivered, and not stopped.
C12_SendOnlyWhenOpen ==
    [][sent' # sent => chan'[sent'[Len(sent')].channel] = "open"]_vars

\* A realtime situation message is processed in this step.
RtsMessageStep ==
    /\ prog = "appconfig"
    /\ ev'.kind = "message"
    /\ ev'.chan = "realtime_situation"

\* C14: a configuration broadcast processed while the state is earlier than
\* WAIT_FOR_APPLICATION_CONFIGURATION changes neither the state, nor the
\* counters, nor return_code, and triggers no send and no channel stop.
C14_EarlyBroadcastIgnored ==
    [][(/\ RtsMessageStep
        /\ ev'.has_app_config
        /\ state < WAIT_FOR_APPLICATION_CONFIGURATION)
       => UNCHANGED <<state, total_node_count, loaded_node_count, return_code,
                      sent, stops, chan>>]_vars

\* C15: a universe-size event processed in WAIT_FOR_STARTUP_SITUATION sets
\* the expected count to the size it declares (last writer wins), and the
\* wait condition is satisfied exactly when the observed count equals it.
C15_LastWriterWins ==
    [][(/\ RtsMessageStep
        /\ state = WAIT_FOR_STARTUP_SITUATION
        /\ ev'.has_meta)
       => /\ total_node_count' = ev'.node_count
          /\ state' # state <=> loaded_node_count' = ev'.node_count]_vars

\* C17: an error notification on a channel whose keep_running is false
\* leaves the state, the counters and return_code unchanged, sends nothing
\* and stops no channel.
C17_ErrorWhileClosingSuppressed ==
    [][(ev'.kind = "error" /\ ~ev'.keep_running)
       => UNCHANGED <<state, total_node_count, loaded_node_count, return_code,
                      sent, stops, chan, visited>>]_vars

C17_Witness ==
    /\ ev.kind = "error"
    /\ ~ev.keep_running
    /\ prog = "appconfig"
    /\ ev.chan = "realtime_situation"
    /\ state = WAIT_FOR_STARTUP_SITUATION

\* C18: in every reachable state return_code is -1 or 0, it is 0 only in
\* state END, and once 0 it stays 0.
C18_ReturnCodeRange ==
    [][/\ return_code \in {-1, 0} /\ return_code' \in {-1, 0}
       /\ return_code = 0 => state = END
       /\ return_code' = 0 => state' = END
       /\ return_code = 0 => return_code' = 0]_vars

\* The states in which parse_response has no parser.
NoParserStates(p) ==
    IF p = "network" THEN {END}
    ELSE {REALTIME_SITUATION_LOGIN, WAIT_FOR_STARTUP_SITUATION,
          WAIT_FOR_APPLICATION_CONFIGURATION, END}

\* C19: a message received on the authentication or the metadata channel
\* while the state has no response parser stops every channel of the
\* session and leaves the state and return_code unchanged (-1 in
\* ApplicationConfigurationExample).
C19_NoParserIsFailure ==
    [][(/\ ev'.kind = "message"
        /\ ev'.chan \in {"authentication", "metadata"}
        /\ state \in NoParserStates(prog))
       => /\ state' = state
          /\ return_code' = return_code
          /\ prog = "appconfig" => return_code' = -1
          /\ sent' = sent
          /\ \A c \in Channels(prog) : stops'[c] = stops[c] + 1
          /\ \A c \in Channels(prog) : chan'[c] \notin {"started", "open"}]_vars

C19_Witness ==
    /\ prog = "appconfig"
    /\ state = WAIT_FOR_STARTUP_SITUATION
    /\ ev.kind = "message" /\ ev.chan = "metadata" /\ ev.success
    /\ \A c \in AllChannels : stops[c] = 1 /\ Closed(c)

\* C20: the two counters change only in WAIT_FOR_STARTUP_SITUATION and
\* never decrease; a realtime situation message processed in LOGIN,
\* SET_APPLICATION_CONFIGURATION, WAIT_FOR_APPLICATION_CONFIGURATION or END
\* leaves counters, state and return_code unchanged and sends nothing, and
\* one processed in LOGIN changes nothing at all.
C20_CountersOnlyInStartup ==
    [][/\ (total_node_count' # total_node_count
              \/ loaded_node_count' # loaded_node_count)
          => /\ prog = "appconfig"
             /\ state = WAIT_FOR_STARTUP_SITUATION
             /\ total_node_count' >= total_node_count
             /\ loaded_node_count' >= loaded_node_count
       /\ (RtsMessageStep /\ state \in {LOGIN, SET_APPLICATION_CONFIGURATION,
                                        WAIT_FOR_APPLICATION_CONFIGURATION, END})
          => UNCHANGED <<state, total_node_count, loaded_node_count,
                         return_code, sent, visited>>
       /\ (RtsMessageStep /\ state = LOGIN)
          => UNCHANGED <<stops, chan, acked, broadcast_seen, n_meta>>]_vars

C20_Witness ==
    /\ prog = "appconfig"
    /\ ev.kind = "message" /\ ev.chan = "realtime_situation"
    /\ state = WAIT_FOR_APPLICATION_CONFIGURATION
    /\ loaded_node_count = 2 /\ total_node_count = 2


\* C11: run() always eventually returns, in both programs, also when an
\* awaited response or the wait condition never arrives.
C11_RunAlwaysReturns == <>(pc = "returned")

\* No on_message callback is running.
Quiescent == \A t \in AllChannels : thr[t].pc = "idle"

\* C13: for every statement-level interleaving of two message callbacks on
\* different channel threads, once the callbacks have returned no state
\* has been skipped and each state entered that has a request got exactly
\* one send.
C13_AtomicTransition ==
    Quiescent =>
        /\ \A i \in 1..(Len(visited) - 1) : visited[i + 1] = visited[i] + 1
        /\ \A i \in DOMAIN visited :
              send_request(prog, visited[i]) # "none" =>
                  Cardinality({j \in DOMAIN sent : sent[j].state = visited[i]}) = 1

====
